---- MODULE Spec2Model ----
(***************************************************************************)
(* hydralog: the on-disk commit log segment (internal/log).  A segment     *)
(* pairs a store file of length-prefixed payloads, written through a       *)
(* bufio.Writer, with a memory-mapped index of 12-byte entries.            *)
(*                                                                         *)
(* Files are sequences of bytes.  Integers that fit in 31 bits are plain   *)
(* integers; the int64 and uint64 arguments of index.Read and segment.Read *)
(* are carried as pairs <<hi, lo>> with value hi * 2^32 + lo, so that the  *)
(* conversion to uint32 is the conversion the code performs.               *)
(*                                                                         *)
(* Spec: one caller, no I/O failure.  SpecFaulty: writes of the store file *)
(* and the syncs of index.Close may fail.  SpecConcurrent: two threads in  *)
(* segment.Append and store.Read, statement by statement.  SpecReconfig:   *)
(* newSegment with a configuration that may differ from the last one.      *)
(***************************************************************************)
EXTENDS Integers, Sequences, FiniteSets, TLC

\* ------------------------------------------------------------------ bounds
\* How many times segment.Append is called on one directory.
MaxAppends == 3
\* Capacity of the store's bufio.Writer.  bufio.NewWriter takes 4096 bytes;
\* the model takes a buffer that the modelled payloads fill.
BufSize == 16
\* How many file writes of the store may fail in one behaviour.
MaxFaults == 1
\* Width in bits of the unsigned words nearestMultiple computes with.  The
\* code's uint64 has 64; the model takes a width whose every value it can
\* enumerate, and computes modulo 2^WordBits as the code does modulo 2^64.
WordBits == 6

\* ------------------------------------------------------- program constants
lenWidth == 8
offWidth == 4
posWidth == 8
entWidth == offWidth + posWidth

\* Inputs: record values, base offsets, configurations, concurrent callers.
Threads == { 1, 2 }
Values == { <<>>, <<98, 98>> }
BaseOffsets == { 0, 10 }
Configs == { [MaxStoreBytes |-> 12, MaxIndexBytes |-> 36],
             [MaxStoreBytes |-> 64, MaxIndexBytes |-> 24],
             [MaxStoreBytes |-> 64, MaxIndexBytes |-> 30] }

VARIABLES
    phase,       \* "open": a segment object is in use; "closed": after Close;
                 \* "removed": after Remove; "panicked": newSegment panicked
    config,      \* segment.config
    baseOffset,  \* segment.baseOffset
    nextOffset,  \* segment.nextOffset
    storeSize,   \* store.size
    storeBuf,    \* store.buf: bytes the bufio.Writer holds
    storeErr,    \* store.buf's sticky error
    storeFile,   \* the bytes of <base>.store on disk
    indexSize,   \* index.size
    mmapLen,     \* len(index.mmap)
    indexFile,   \* the bytes of <base>.index on disk (the map is shared)
    appended,    \* history: the successful segment.Append calls, in order
    stored,      \* history: the successful store.Append calls on the store file
    calls,       \* history: number of segment.Append calls made
    faults,      \* history: number of injected file write failures
    faultBudget, \* how many file write failures the environment may inject
    ret,         \* what the last operation returned
    mu,          \* store.mu: the thread that holds it, 0 when it is free
    proc         \* per thread: where it is in its call, and the call's locals

vars == << phase, config, baseOffset, nextOffset, storeSize, storeBuf, storeErr,
           storeFile, indexSize, mmapLen, indexFile, appended, stored, calls,
           faults, faultBudget, ret, mu, proc >>

\* ------------------------------------------------------------ byte helpers
\* What the model holds for a file that does not exist: no file has a byte -1.
Absent == << -1 >>

\* os.OpenFile with O_CREATE: the file's bytes, none when it is created.
OpenFile(file) == IF file = Absent THEN <<>> ELSE file

Zeros(n) == [i \in 1..n |-> 0]

Slice(s, from, to) == SubSeq(s, from + 1, to)

\* os.Truncate / File.Truncate: cut, or extend with zero bytes.
Truncate(f, n) == IF n <= Len(f) THEN SubSeq(f, 1, n) ELSE f \o Zeros(n - Len(f))

\* enc.PutUint32 / enc.PutUint64 / binary.Write of a uint64: big-endian, w bytes.
RECURSIVE PutUint(_, _)
PutUint(v, w) == IF w = 0 THEN <<>> ELSE PutUint(v \div 256, w - 1) \o << v % 256 >>

\* enc.Uint32 / enc.Uint64: big-endian decode.  A value of 2^31 or more is
\* held as 2^31 - 1: it is only ever compared with the length of a file.
RECURSIVE UintAcc(_, _)
UintAcc(bs, acc) ==
    IF bs = <<>> THEN acc
    ELSE IF acc > 8388607 THEN UintAcc(Tail(bs), 2147483647)
    ELSE UintAcc(Tail(bs), acc * 256 + Head(bs))
Uint(bs) == UintAcc(bs, 0)

\* --------------------------------------------------- wide integers (uint64)
\* <<hi, lo>> stands for hi * 2^32 + lo, with -2^31 < lo < 2^31.
Wide(hi, lo) == [hi |-> hi, lo |-> lo]

\* uint32(x): x modulo 2^32.
Uint32(w) == IF w.lo >= 0 THEN Wide(0, w.lo) ELSE Wide(1, w.lo)

\* w * k and w + k for a small k >= 0.
WMul(w, k) == Wide(w.hi * k, w.lo * k)
WAdd(w, k) == Wide(w.hi, w.lo + k)

\* n < w for a plain n in 0..2^31-1.
LessThanWide(n, w) == IF w.hi > 0 THEN TRUE ELSE IF w.hi < 0 THEN FALSE ELSE n < w.lo

\* int64(a - b) for uint64 a (wide) and b (plain): the difference wraps modulo
\* 2^64 and is read back as signed, which is the integer a - b while
\* |a - b| < 2^63.
SubAsInt64(a, b) == Wide(a.hi, a.lo - b)

MinusOne == Wide(0, -1)

\* ------------------------------------------------------------ record codec
\* api.Record{Value []byte, Offset uint64} in the proto3 wire format: field 1
\* (bytes) as tag 10, length, bytes; field 2 (varint) as tag 16, value; a
\* field holding its zero value is left out.  Lengths and offsets stay below
\* 128, so each varint is one byte.
Marshal(r) ==
    (IF Len(r.Value) > 0 THEN << 10, Len(r.Value) >> \o r.Value ELSE <<>>)
    \o (IF r.Offset > 0 THEN << 16, r.Offset >> ELSE <<>>)

RECURSIVE UnmarshalInto(_, _)
UnmarshalInto(p, r) ==
    IF p = <<>> THEN [err |-> "nil", record |-> r]
    ELSE IF Head(p) = 10 /\ Len(p) >= 2 /\ Len(p) >= 2 + p[2]
        THEN UnmarshalInto(SubSeq(p, 3 + p[2], Len(p)),
                           [r EXCEPT !.Value = SubSeq(p, 3, 2 + p[2])])
    ELSE IF Head(p) = 16 /\ Len(p) >= 2
        THEN UnmarshalInto(SubSeq(p, 3, Len(p)), [r EXCEPT !.Offset = p[2]])
    ELSE [err |-> "codec", record |-> r]

NoRecord == [Value |-> <<>>, Offset |-> 0]

Unmarshal(p) == UnmarshalInto(p, NoRecord)

\* ------------------------------------------------------------ bufio.Writer
\* A writer is [buf, err, file]; a fault is [fails, n]: the next write to the
\* file fails after n of its bytes.  os.File.Write of bs under a fault.
FileWrite(file, bs, fault) ==
    IF fault.fails
    THEN LET n == IF fault.n < Len(bs) THEN fault.n ELSE Len(bs) - 1
         IN  [file |-> file \o SubSeq(bs, 1, n), n |-> n, err |-> TRUE]
    ELSE [file |-> file \o bs, n |-> Len(bs), err |-> FALSE]

NoFault == [fails |-> FALSE, n |-> 0]

\* (*bufio.Writer).Flush.  Returns the writer and the fault left to inject.
Flush(w, fault) ==
    IF w.err THEN [w |-> w, fault |-> fault]
    ELSE IF Len(w.buf) = 0 THEN [w |-> w, fault |-> fault]
    ELSE LET fw == FileWrite(w.file, w.buf, fault)
         IN  IF fw.err
             THEN [w |-> [buf |-> SubSeq(w.buf, fw.n + 1, Len(w.buf)), err |-> TRUE,
                          file |-> fw.file],
                   fault |-> NoFault]
             ELSE [w |-> [buf |-> <<>>, err |-> FALSE, file |-> fw.file],
                   fault |-> fault]

\* (*bufio.Writer).Write: while p does not fit, write it through (empty
\* buffer) or fill the buffer and flush; then copy the rest into the buffer.
RECURSIVE BufWrite(_, _, _, _)
BufWrite(w, p, fault, nn) ==
    IF Len(p) > BufSize - Len(w.buf) /\ ~w.err
    THEN IF Len(w.buf) = 0
         THEN LET fw == FileWrite(w.file, p, fault)
              IN  BufWrite([w EXCEPT !.file = fw.file, !.err = fw.err],
                           SubSeq(p, fw.n + 1, Len(p)),
                           IF fw.err THEN NoFault ELSE fault, nn + fw.n)
         ELSE LET n  == BufSize - Len(w.buf)
                  fl == Flush([w EXCEPT !.buf = w.buf \o SubSeq(p, 1, n)], fault)
              IN  BufWrite(fl.w, SubSeq(p, n + 1, Len(p)), fl.fault, nn + n)
    ELSE IF w.err THEN [w |-> w, nn |-> nn, err |-> TRUE, fault |-> fault]
    ELSE [w |-> [w EXCEPT !.buf = w.buf \o p], nn |-> nn + Len(p), err |-> FALSE,
          fault |-> fault]

\* The store's writer, from the state.
Writer == [buf |-> storeBuf, err |-> storeErr, file |-> storeFile]

\* ------------------------------------------------------------------- store
\* (*os.File).ReadAt of n bytes at off: short reads end in io.EOF; a read of
\* no bytes succeeds.
ReadAt(file, off, n) ==
    IF n = 0 THEN [err |-> "nil", bytes |-> <<>>]
    ELSE IF n <= Len(file) - off THEN [err |-> "nil", bytes |-> Slice(file, off, off + n)]
    ELSE [err |-> "EOF", bytes |-> <<>>]

\* Mutants of store.Append: the position taken after the write; size advanced
\* before the writes are known to have succeeded; size set to the entry's
\* length instead of advanced by it; the length prefix left out of the count.
StoreAppendPosAfter(w, size, p, fault) ==
    LET r1 == BufWrite(w, PutUint(Len(p), lenWidth), fault, 0)
        r2 == BufWrite(r1.w, p, r1.fault, 0)
    IN  IF r1.err THEN [w |-> r1.w, size |-> size, n |-> 0, pos |-> 0, err |-> "io"]
        ELSE IF r2.err THEN [w |-> r2.w, size |-> size, n |-> 0, pos |-> 0, err |-> "io"]
        ELSE [w |-> r2.w, size |-> size + r2.nn + lenWidth, n |-> r2.nn + lenWidth,
              pos |-> size + r2.nn + lenWidth, err |-> "nil"]

StoreAppendSizeFirst(w, size, p, fault) ==
    LET r1 == BufWrite(w, PutUint(Len(p), lenWidth), fault, 0)
        r2 == BufWrite(r1.w, p, r1.fault, 0)
        sz == size + Len(p) + lenWidth
    IN  IF r1.err THEN [w |-> r1.w, size |-> sz, n |-> 0, pos |-> 0, err |-> "io"]
        ELSE IF r2.err THEN [w |-> r2.w, size |-> sz, n |-> 0, pos |-> 0, err |-> "io"]
        ELSE [w |-> r2.w, size |-> sz, n |-> r2.nn + lenWidth, pos |-> size, err |-> "nil"]

StoreAppendSizeAssign(w, size, p, fault) ==
    LET r1 == BufWrite(w, PutUint(Len(p), lenWidth), fault, 0)
        r2 == BufWrite(r1.w, p, r1.fault, 0)
    IN  IF r1.err THEN [w |-> r1.w, size |-> size, n |-> 0, pos |-> 0, err |-> "io"]
        ELSE IF r2.err THEN [w |-> r2.w, size |-> size, n |-> 0, pos |-> 0, err |-> "io"]
        ELSE [w |-> r2.w, size |-> r2.nn + lenWidth, n |-> r2.nn + lenWidth,
              pos |-> size, err |-> "nil"]

StoreAppendNoPrefix(w, size, p, fault) ==
    LET r1 == BufWrite(w, PutUint(Len(p), lenWidth), fault, 0)
        r2 == BufWrite(r1.w, p, r1.fault, 0)
    IN  IF r1.err THEN [w |-> r1.w, size |-> size, n |-> 0, pos |-> 0, err |-> "io"]
        ELSE IF r2.err THEN [w |-> r2.w, size |-> size, n |-> 0, pos |-> 0, err |-> "io"]
        ELSE [w |-> r2.w, size |-> size + r2.nn, n |-> r2.nn, pos |-> size, err |-> "nil"]

\* store.Append(p): the length, then the payload, through the writer; size
\* advances only when both writes succeed.
StoreAppend(w, size, p, fault) ==
    LET r1 == BufWrite(w, PutUint(Len(p), lenWidth), fault, 0)
        r2 == BufWrite(r1.w, p, r1.fault, 0)
    IN  IF r1.err THEN [w |-> r1.w, size |-> size, n |-> 0, pos |-> 0, err |-> "io"]
        ELSE IF r2.err THEN [w |-> r2.w, size |-> size, n |-> 0, pos |-> 0, err |-> "io"]
        ELSE [w |-> r2.w, size |-> size + r2.nn + lenWidth, n |-> r2.nn + lenWidth,
              pos |-> size, err |-> "nil"]

\* Mutant of store.Read: the file is read without flushing the writer.
StoreReadNoFlush(w, pos, fault) ==
    LET sz == ReadAt(w.file, pos, lenWidth)
        b  == ReadAt(w.file, pos + lenWidth, Uint(sz.bytes))
    IN  IF sz.err # "nil" THEN [w |-> w, err |-> sz.err, bytes |-> <<>>]
        ELSE IF b.err # "nil" THEN [w |-> w, err |-> b.err, bytes |-> <<>>]
        ELSE [w |-> w, err |-> "nil", bytes |-> b.bytes]

\* store.Read(pos): flush, read the length at pos, read that many bytes after it.
StoreRead(w, pos, fault) ==
    LET fl == Flush(w, fault).w
        sz == ReadAt(fl.file, pos, lenWidth)
        b  == ReadAt(fl.file, pos + lenWidth, Uint(sz.bytes))
    IN  IF fl.err THEN [w |-> fl, err |-> "io", bytes |-> <<>>]
        ELSE IF sz.err # "nil" THEN [w |-> fl, err |-> sz.err, bytes |-> <<>>]
        ELSE IF b.err # "nil" THEN [w |-> fl, err |-> b.err, bytes |-> <<>>]
        ELSE [w |-> fl, err |-> "nil", bytes |-> b.bytes]

\* store.Close: flush; the file is closed only when the flush succeeds.
StoreClose(w, fault) ==
    LET fl == Flush(w, fault).w IN [w |-> fl, err |-> IF fl.err THEN "io" ELSE "nil"]

\* Mutant of newStore: size starts at zero whatever the file holds.
NewStoreEmpty(file) == [size |-> 0, w |-> [buf |-> <<>>, err |-> FALSE, file |-> file]]

\* newStore: size is the file's size (os.Stat), the writer is fresh.
NewStore(file) == [size |-> Len(file), w |-> [buf |-> <<>>, err |-> FALSE, file |-> file]]

\* ------------------------------------------------------------------- index
\* An index is [size, mmapLen, file]; the shared map is the first mmapLen
\* bytes of the file.
Index == [size |-> indexSize, mmapLen |-> mmapLen, file |-> indexFile]

\* Mutant of newIndex: the file is mapped without being grown first.
NewIndexNoGrow(file, c) == [size |-> Len(file), mmapLen |-> Len(file), file |-> file]

\* newIndex: size is the file's size, then the file is grown (or cut) to
\* MaxIndexBytes and mapped.
NewIndex(file, c) ==
    [size |-> Len(file), mmapLen |-> c.MaxIndexBytes,
     file |-> Truncate(file, c.MaxIndexBytes)]

\* Mutant of index.Read: -1 is converted like every other argument.
IndexReadNoSentinel(i, in) ==
    IF i.size = 0 THEN [err |-> "EOF", out |-> 0, pos |-> 0]
    ELSE LET out == Uint32(in)
             pos == WMul(out, entWidth)
         IN  IF LessThanWide(i.size, WAdd(pos, entWidth))
             THEN [err |-> "EOF", out |-> 0, pos |-> 0]
             ELSE IF pos.lo + entWidth > i.mmapLen
             THEN [err |-> "panic", out |-> 0, pos |-> 0]
             ELSE [err |-> "nil",
                   out |-> Uint(Slice(i.file, pos.lo, pos.lo + offWidth)),
                   pos |-> Uint(Slice(i.file, pos.lo + offWidth, pos.lo + entWidth))]

\* index.Read(in), in an int64 (wide).  A slice past the map panics.
IndexRead(i, in) ==
    IF i.size = 0 THEN [err |-> "EOF", out |-> 0, pos |-> 0]
    ELSE LET out == IF in = MinusOne
                    THEN Uint32(Wide(0, (i.size \div entWidth) - 1))
                    ELSE Uint32(in)
             pos == WMul(out, entWidth)
         IN  IF LessThanWide(i.size, WAdd(pos, entWidth))
             THEN [err |-> "EOF", out |-> 0, pos |-> 0]
             ELSE IF pos.lo + entWidth > i.mmapLen
             THEN [err |-> "panic", out |-> 0, pos |-> 0]
             ELSE [err |-> "nil",
                   out |-> Uint(Slice(i.file, pos.lo, pos.lo + offWidth)),
                   pos |-> Uint(Slice(i.file, pos.lo + offWidth, pos.lo + entWidth))]

\* index.Write(off, pos): io.EOF when the map has no room for one more entry.
IndexWrite(i, off, pos) ==
    IF i.mmapLen < i.size + entWidth THEN [i |-> i, err |-> "EOF"]
    ELSE [i |-> [i EXCEPT
                   !.file = SubSeq(i.file, 1, i.size) \o PutUint(off, offWidth)
                            \o PutUint(pos, posWidth)
                            \o SubSeq(i.file, i.size + entWidth + 1, Len(i.file)),
                   !.size = i.size + entWidth],
          err |-> "nil"]

\* Mutant of index.Close: the file is left at the size it was grown to.
IndexCloseNoTruncate(i, fault) == [i |-> i, err |-> IF fault THEN "sync" ELSE "nil"]

\* index.Close: sync the map and the file, then truncate the file back to
\* size.  fault: a sync fails, and Close returns before it truncates.
IndexClose(i, fault) ==
    IF fault THEN [i |-> i, err |-> "sync"]
    ELSE [i |-> [i EXCEPT !.file = Truncate(i.file, i.size)], err |-> "nil"]

\* ----------------------------------------------------------------- segment
\* segment.IsMaxed
IsMaxed ==
    storeSize >= config.MaxStoreBytes \/ indexSize >= config.MaxIndexBytes

\* segment.Read(off), off a uint64 (wide): the result, and the store's writer
\* after the flush that store.Read performs.
SegmentReadAt(i, w, off, fault) ==
    LET ir == IndexRead(i, SubAsInt64(off, baseOffset))
        sr == StoreRead(w, ir.pos, fault)
        um == Unmarshal(sr.bytes)
    IN  IF ir.err # "nil" THEN [w |-> w, err |-> ir.err, record |-> NoRecord]
        ELSE IF sr.err # "nil" THEN [w |-> sr.w, err |-> sr.err, record |-> NoRecord]
        ELSE [w |-> sr.w, err |-> um.err, record |-> um.record]

\* What segment.Read(off) returns in the current state when no write fails.
ReadNow(off) ==
    LET r == SegmentReadAt(Index, Writer, off, NoFault) IN [err |-> r.err, record |-> r.record]

\* How many bytes a failing write of the store file puts down before it fails.
ShortWrites == { 1 }

Faults == { NoFault } \cup
          { [fails |-> TRUE, n |-> k] : k \in IF faults < faultBudget THEN ShortWrites ELSE {} }

Injected(w) == IF w.err /\ ~storeErr THEN 1 ELSE 0

SetWriter(w) ==
    /\ storeBuf' = w.buf
    /\ storeErr' = w.err
    /\ storeFile' = w.file
    /\ faults' = faults + Injected(w)

SetIndex(i) ==
    /\ indexSize' = i.size
    /\ mmapLen' = i.mmapLen
    /\ indexFile' = i.file

\* Mutant of the relative offset: the absolute offset, the base not taken off.
RelativeOffsetAbsolute(next, base) == Uint32(Wide(0, next)).lo

\* The relative offset segment.Append hands to index.Write.
RelativeOffset(next, base) == Uint32(Wide(0, next - base)).lo

\* Mutants of the nextOffset update: never advanced; advanced as soon as the
\* store append succeeded.
NextOffsetStuck(cur, storeErr_, indexErr) == cur

NextOffsetEager(cur, storeErr_, indexErr) == IF storeErr_ # "nil" THEN cur ELSE cur + 1

\* segment.nextOffset after an Append that stamped cur: the increment is
\* reached only when the store append and the index write both succeeded.
NextOffsetAfter(cur, storeErr_, indexErr) ==
    IF storeErr_ # "nil" THEN cur ELSE IF indexErr # "nil" THEN cur ELSE cur + 1

\* segment.Append(record) with record.Value = value.
SegmentAppend(value, fault) ==
    /\ UNCHANGED << mu, proc >>
    /\ phase = "open"
    /\ calls < MaxAppends
    /\ LET cur == nextOffset
           p   == Marshal([Value |-> value, Offset |-> cur])
           sa  == StoreAppend(Writer, storeSize, p, fault)
           iw  == IndexWrite(Index, RelativeOffset(nextOffset, baseOffset), sa.pos)
       IN  /\ calls' = calls + 1
           /\ SetWriter(sa.w)
           /\ storeSize' = sa.size
           /\ nextOffset' = NextOffsetAfter(cur, sa.err, iw.err)
           /\ IF sa.err # "nil"
              THEN /\ ret' = [op |-> "Append", value |-> value, err |-> sa.err, offset |-> 0,
                              store |-> [n |-> sa.n, pos |-> sa.pos, err |-> sa.err]]
                   /\ UNCHANGED << indexSize, mmapLen, indexFile, appended, stored >>
              ELSE /\ stored' = Append(stored, [pos |-> sa.pos, n |-> sa.n, p |-> p])
                   /\ IF iw.err # "nil"
                      THEN /\ ret' = [op |-> "Append", value |-> value, err |-> iw.err,
                                      offset |-> 0,
                                      store |-> [n |-> sa.n, pos |-> sa.pos, err |-> sa.err]]
                           /\ UNCHANGED << indexSize, mmapLen, indexFile, appended >>
                      ELSE /\ SetIndex(iw.i)
                           /\ appended' = Append(appended,
                                  [offset |-> cur, value |-> value, pos |-> sa.pos])
                           /\ ret' = [op |-> "Append", value |-> value, err |-> "nil",
                                      offset |-> cur,
                                      store |-> [n |-> sa.n, pos |-> sa.pos, err |-> sa.err]]
    /\ UNCHANGED << phase, config, baseOffset, faultBudget >>

\* segment.Read(off)
SegmentRead(off, fault) ==
    /\ UNCHANGED << mu, proc >>
    /\ phase = "open"
    /\ LET r == SegmentReadAt(Index, Writer, off, fault)
       IN  /\ SetWriter(r.w)
           /\ ret' = [op |-> "Read", off |-> off, err |-> r.err, record |-> r.record]
    /\ UNCHANGED << phase, config, baseOffset, nextOffset, storeSize, indexSize,
                    mmapLen, indexFile, appended, stored, calls, faultBudget >>

\* index.Read(in), called on the segment's index.
ReadIndex(in) ==
    /\ UNCHANGED << mu, proc >>
    /\ phase = "open"
    /\ LET r == IndexRead(Index, in)
       IN  ret' = [op |-> "index.Read", in |-> in, err |-> r.err, out |-> r.out,
                   pos |-> r.pos]
    /\ UNCHANGED << phase, config, baseOffset, nextOffset, storeSize, storeBuf,
                    storeErr, storeFile, indexSize, mmapLen, indexFile, appended,
                    stored, calls, faults, faultBudget >>

\* store.Read(pos), called on the segment's store.
ReadStore(pos, fault) ==
    /\ UNCHANGED << mu, proc >>
    /\ phase = "open"
    /\ LET r == StoreRead(Writer, pos, fault)
       IN  /\ SetWriter(r.w)
           /\ ret' = [op |-> "store.Read", pos |-> pos, err |-> r.err, bytes |-> r.bytes]
    /\ UNCHANGED << phase, config, baseOffset, nextOffset, storeSize, indexSize,
                    mmapLen, indexFile, appended, stored, calls, faultBudget >>

\* Mutant of segment.Close: the store is closed whatever index.Close returned.
CloseBoth(i, w, ifault, fault) ==
    LET ic == IndexClose(i, ifault)
        sc == StoreClose(w, fault)
    IN  [i |-> ic.i, w |-> sc.w, err |-> IF ic.err # "nil" THEN ic.err ELSE sc.err,
         indexClosed |-> ic.err = "nil"]

\* segment.Close on index i and the store's writer w: index.Close, and only
\* when that succeeded store.Close; the first error is the result.
CloseResult(i, w, ifault, fault) ==
    LET ic == IndexClose(i, ifault)
        sc == StoreClose(w, fault)
    IN  IF ic.err # "nil"
        THEN [i |-> ic.i, w |-> w, err |-> ic.err, indexClosed |-> FALSE]
        ELSE [i |-> ic.i, w |-> sc.w, err |-> sc.err, indexClosed |-> TRUE]

\* The state after segment.Close returned cr: a segment whose index was not
\* closed is as it was.
Closed(cr) ==
    /\ SetIndex(cr.i)
    /\ storeBuf' = cr.w.buf
    /\ storeErr' = cr.w.err
    /\ storeFile' = cr.w.file
    /\ faults' = faults + Injected(cr.w) + (IF cr.err = "sync" THEN 1 ELSE 0)
    /\ phase' = IF cr.indexClosed THEN "closed" ELSE "open"

\* segment.Close
SegmentClose(ifault, fault) ==
    /\ UNCHANGED << mu, proc >>
    /\ phase = "open"
    /\ LET cr == CloseResult(Index, Writer, ifault, fault)
       IN  /\ Closed(cr)
           /\ ret' = [op |-> "Close", err |-> cr.err]
    /\ UNCHANGED << config, baseOffset, nextOffset, storeSize, appended, stored, calls,
                    faultBudget >>

\* Mutant of the unlinking in segment.Remove: the file is unlinked whatever
\* Close returned.
UnlinkAlways(file, closeErr) == Absent

\* os.Remove of a file in segment.Remove, reached only when Close succeeded.
Unlink(file, closeErr) == IF closeErr # "nil" THEN file ELSE Absent

\* segment.Remove: Close, then unlink the index file and the store file.
SegmentRemove(ifault, fault) ==
    /\ UNCHANGED << mu, proc >>
    /\ phase = "open"
    /\ LET cr == CloseResult(Index, Writer, ifault, fault)
       IN  /\ indexSize' = cr.i.size
           /\ mmapLen' = cr.i.mmapLen
           /\ indexFile' = Unlink(cr.i.file, cr.err)
           /\ storeBuf' = cr.w.buf
           /\ storeErr' = cr.w.err
           /\ storeFile' = Unlink(cr.w.file, cr.err)
           /\ faults' = faults + Injected(cr.w) + (IF cr.err = "sync" THEN 1 ELSE 0)
           /\ phase' = IF cr.err = "nil" THEN "removed"
                       ELSE IF cr.indexClosed THEN "closed" ELSE "open"
           /\ ret' = [op |-> "Remove", err |-> cr.err]
    /\ UNCHANGED << config, baseOffset, nextOffset, storeSize, appended, stored, calls,
                    faultBudget >>

\* newSegment(dir, baseOffset, c) on the directory as the last segment left
\* it.  index.Read(-1) panics when the last entry lies past the map; the
\* segment under construction then has no nextOffset yet.  The histories
\* start again when the files are created anew.
NewSegment(c) ==
    /\ UNCHANGED << mu, proc >>
    /\ phase \in { "closed", "removed", "panicked" }
    /\ LET st   == NewStore(OpenFile(storeFile))
           idx  == NewIndex(OpenFile(indexFile), c)
           last == IndexRead(idx, MinusOne)
       IN  /\ storeSize' = st.size
           /\ storeBuf' = st.w.buf
           /\ storeErr' = st.w.err
           /\ storeFile' = st.w.file
           /\ SetIndex(idx)
           /\ nextOffset' = IF last.err = "panic" THEN 0
                            ELSE IF last.err # "nil" THEN baseOffset
                            ELSE baseOffset + last.out + 1
           /\ ret' = [op |-> "newSegment",
                      err |-> IF last.err = "panic" THEN "panic" ELSE "nil"]
           /\ phase' = IF last.err = "panic" THEN "panicked" ELSE "open"
    /\ config' = c
    /\ IF phase = "removed"
       THEN appended' = <<>> /\ stored' = <<>> /\ calls' = 0
       ELSE UNCHANGED << appended, stored, calls >>
    /\ UNCHANGED << baseOffset, faults, faultBudget >>

\* ------------------------------------------------------- concurrent callers
\* A thread that is in no call.
Idle == [pc |-> "idle", value |-> <<>>, cur |-> 0, p |-> <<>>, pos |-> 0]

\* Mutant of s.mu.Lock: the lock is granted whoever holds it.
CanLockAlways(m) == TRUE

\* s.mu.Lock returns only when the mutex is free.
CanLock(m) == m = 0

\* segment.Append, up to its call of store.Append: cur is read from
\* nextOffset, stamped on the record, and the record is marshalled.
AppendBegin(t, value) ==
    /\ phase = "open"
    /\ proc[t].pc = "idle"
    /\ calls < MaxAppends
    /\ calls' = calls + 1
    /\ proc' = [proc EXCEPT ![t] = [pc |-> "lock", value |-> value, cur |-> nextOffset,
                                     p |-> Marshal([Value |-> value, Offset |-> nextOffset]),
                                     pos |-> 0]]
    /\ UNCHANGED << phase, config, baseOffset, nextOffset, storeSize, storeBuf, storeErr,
                    storeFile, indexSize, mmapLen, indexFile, appended, stored, faults,
                    faultBudget, ret, mu >>

\* store.Append: s.mu.Lock(); pos = s.size
StoreLock(t) ==
    /\ proc[t].pc = "lock"
    /\ CanLock(mu)
    /\ mu' = t
    /\ proc' = [proc EXCEPT ![t].pc = "len", ![t].pos = storeSize]
    /\ UNCHANGED << phase, config, baseOffset, nextOffset, storeSize, storeBuf, storeErr,
                    storeFile, indexSize, mmapLen, indexFile, appended, stored, calls,
                    faults, faultBudget, ret >>

\* store.Append: binary.Write(s.buf, enc, uint64(len(p)))
StoreWriteLen(t) ==
    /\ proc[t].pc = "len"
    /\ LET r == BufWrite(Writer, PutUint(Len(proc[t].p), lenWidth), NoFault, 0)
       IN  /\ storeBuf' = r.w.buf
           /\ storeErr' = r.w.err
           /\ storeFile' = r.w.file
    /\ proc' = [proc EXCEPT ![t].pc = "payload"]
    /\ UNCHANGED << phase, config, baseOffset, nextOffset, storeSize, indexSize, mmapLen,
                    indexFile, appended, stored, calls, faults, faultBudget, ret, mu >>

\* store.Append: s.buf.Write(p)
StoreWritePayload(t) ==
    /\ proc[t].pc = "payload"
    /\ LET r == BufWrite(Writer, proc[t].p, NoFault, 0)
       IN  /\ storeBuf' = r.w.buf
           /\ storeErr' = r.w.err
           /\ storeFile' = r.w.file
    /\ proc' = [proc EXCEPT ![t].pc = "size"]
    /\ UNCHANGED << phase, config, baseOffset, nextOffset, storeSize, indexSize, mmapLen,
                    indexFile, appended, stored, calls, faults, faultBudget, ret, mu >>

\* store.Append: s.size += w; return w, pos, nil; the deferred s.mu.Unlock()
StoreUnlock(t) ==
    /\ proc[t].pc = "size"
    /\ storeSize' = storeSize + Len(proc[t].p) + lenWidth
    /\ stored' = Append(stored, [pos |-> proc[t].pos, n |-> Len(proc[t].p) + lenWidth,
                                  p |-> proc[t].p])
    /\ mu' = 0
    /\ proc' = [proc EXCEPT ![t].pc = "index"]
    /\ UNCHANGED << phase, config, baseOffset, nextOffset, storeBuf, storeErr, storeFile,
                    indexSize, mmapLen, indexFile, appended, calls, faults, faultBudget,
                    ret >>

\* segment.Append: s.index.Write(uint32(s.nextOffset - s.baseOffset), pos),
\* with nextOffset as it is now; an error ends the call.
AppendIndexWrite(t) ==
    /\ proc[t].pc = "index"
    /\ LET iw == IndexWrite(Index, RelativeOffset(nextOffset, baseOffset), proc[t].pos)
       IN  IF iw.err # "nil"
           THEN /\ proc' = [proc EXCEPT ![t] = Idle]
                /\ ret' = [op |-> "Append", value |-> proc[t].value, err |-> iw.err,
                           offset |-> 0,
                           store |-> [n |-> Len(proc[t].p) + lenWidth, pos |-> proc[t].pos,
                                      err |-> "nil"]]
                /\ UNCHANGED << indexSize, mmapLen, indexFile >>
           ELSE /\ proc' = [proc EXCEPT ![t].pc = "advance"]
                /\ SetIndex(iw.i)
                /\ UNCHANGED ret
    /\ UNCHANGED << phase, config, baseOffset, nextOffset, storeSize, storeBuf, storeErr,
                    storeFile, appended, stored, calls, faults, faultBudget, mu >>

\* segment.Append: s.nextOffset++; return cur, nil
AppendReturn(t) ==
    /\ proc[t].pc = "advance"
    /\ nextOffset' = nextOffset + 1
    /\ appended' = Append(appended, [offset |-> proc[t].cur, value |-> proc[t].value,
                                      pos |-> proc[t].pos])
    /\ ret' = [op |-> "Append", value |-> proc[t].value, err |-> "nil",
               offset |-> proc[t].cur,
               store |-> [n |-> Len(proc[t].p) + lenWidth, pos |-> proc[t].pos,
                          err |-> "nil"]]
    /\ proc' = [proc EXCEPT ![t] = Idle]
    /\ UNCHANGED << phase, config, baseOffset, storeSize, storeBuf, storeErr, storeFile,
                    indexSize, mmapLen, indexFile, stored, calls, faults, faultBudget, mu >>

\* store.Read(pos): s.mu.Lock(); s.buf.Flush()
ReadLock(t, pos) ==
    /\ phase = "open"
    /\ proc[t].pc = "idle"
    /\ CanLock(mu)
    /\ mu' = t
    /\ LET fl == Flush(Writer, NoFault).w
       IN  /\ storeBuf' = fl.buf
           /\ storeErr' = fl.err
           /\ storeFile' = fl.file
    /\ proc' = [proc EXCEPT ![t].pc = "readat", ![t].pos = pos]
    /\ UNCHANGED << phase, config, baseOffset, nextOffset, storeSize, indexSize, mmapLen,
                    indexFile, appended, stored, calls, faults, faultBudget, ret >>

\* store.Read(pos): the two s.File.ReadAt; return; the deferred s.mu.Unlock()
ReadUnlock(t) ==
    /\ proc[t].pc = "readat"
    /\ LET sz == ReadAt(storeFile, proc[t].pos, lenWidth)
           b  == ReadAt(storeFile, proc[t].pos + lenWidth, Uint(sz.bytes))
       IN  ret' = [op |-> "store.Read", pos |-> proc[t].pos,
                   err |-> IF sz.err # "nil" THEN sz.err ELSE b.err,
                   bytes |-> IF sz.err # "nil" THEN <<>> ELSE b.bytes]
    /\ mu' = 0
    /\ proc' = [proc EXCEPT ![t] = Idle]
    /\ UNCHANGED << phase, config, baseOffset, nextOffset, storeSize, storeBuf, storeErr,
                    storeFile, indexSize, mmapLen, indexFile, appended, stored, calls,
                    faults, faultBudget >>

\* A fault can only show in a call that writes the buffer to the file.
FlushFaults == IF storeBuf = <<>> \/ storeErr THEN { NoFault } ELSE Faults

\* Whether a sync of index.Close fails.
SyncFaults == IF faults < faultBudget THEN { FALSE, TRUE } ELSE { FALSE }

\* The arguments the model gives to segment.Read: the two ends of the
\* segment's range, one offset outside at each end, and 2^32 past the base.
ReadOffsets ==
    { Wide(0, a) : a \in { b \in { baseOffset - 1, baseOffset, nextOffset - 1, nextOffset } :
                             b >= 0 } }
    \cup { Wide(1, baseOffset) }

\* The arguments the model gives to index.Read: the sentinel, the first entry,
\* the first absent entry, and arguments below -1 and 2^32 away from 0.
IndexArgs ==
    { Wide(0, n) : n \in { -2, -1, 0, indexSize \div entWidth } }
    \cup { Wide(1, 0), Wide(-1, 0) }

\* The positions the model gives to store.Read: those store.Append returned.
StorePositions == { stored[k].pos : k \in 1..Len(stored) }

\* A fresh directory: newSegment has created both files.
Fresh ==
    /\ phase = "open"
    /\ config \in Configs
    /\ baseOffset \in BaseOffsets
    /\ nextOffset = baseOffset
    /\ storeSize = NewStore(<<>>).size
    /\ storeBuf = <<>>
    /\ storeErr = FALSE
    /\ storeFile = <<>>
    /\ indexSize = NewIndex(<<>>, config).size
    /\ mmapLen = NewIndex(<<>>, config).mmapLen
    /\ indexFile = NewIndex(<<>>, config).file
    /\ appended = <<>>
    /\ stored = <<>>
    /\ calls = 0
    /\ faults = 0
    /\ ret = [op |-> "newSegment", err |-> "nil"]
    /\ mu = 0
    /\ proc = [t \in Threads |-> Idle]

\* Every file write succeeds.
Init == Fresh /\ faultBudget = 0

\* The file system may fail writes of the store file.
InitFaulty == Fresh /\ baseOffset = 10 /\ faultBudget = MaxFaults

Next ==
    \/ \E value \in Values, fault \in Faults : SegmentAppend(value, fault)
    \/ \E off \in ReadOffsets, fault \in FlushFaults : SegmentRead(off, fault)
    \/ \E in \in IndexArgs : ReadIndex(in)
    \/ \E pos \in StorePositions, fault \in FlushFaults : ReadStore(pos, fault)
    \/ \E ifault \in SyncFaults, fault \in FlushFaults : SegmentClose(ifault, fault)
    \/ \E ifault \in SyncFaults, fault \in FlushFaults : SegmentRemove(ifault, fault)
    \/ NewSegment(config)

Spec == Init /\ [][Next]_vars

\* The operations that write the files, and the reads that flush the store.
NextFaulty ==
    \/ \E value \in Values, fault \in Faults : SegmentAppend(value, fault)
    \/ \E off \in ReadOffsets, fault \in FlushFaults : SegmentRead(off, fault)
    \/ \E ifault \in SyncFaults, fault \in FlushFaults : SegmentClose(ifault, fault)
    \/ \E ifault \in SyncFaults, fault \in FlushFaults : SegmentRemove(ifault, fault)
    \/ NewSegment(config)

SpecFaulty == InitFaulty /\ [][NextFaulty]_vars

\* Two threads calling segment.Append and store.Read on one open segment.
InitConcurrent ==
    Fresh /\ baseOffset = 0 /\ config.MaxIndexBytes = 2 * entWidth /\ faultBudget = 0

NextConcurrent ==
    \E t \in Threads :
        \/ \E value \in Values : AppendBegin(t, value)
        \/ StoreLock(t)
        \/ StoreWriteLen(t)
        \/ StoreWritePayload(t)
        \/ StoreUnlock(t)
        \/ AppendIndexWrite(t)
        \/ AppendReturn(t)
        \/ \E pos \in StorePositions : ReadLock(t, pos)
        \/ ReadUnlock(t)

SpecConcurrent == InitConcurrent /\ [][NextConcurrent]_vars

\* The same operations, with the configuration chosen anew at each newSegment.
NextReconfig ==
    \/ \E value \in Values : SegmentAppend(value, NoFault)
    \/ \E in \in IndexArgs : ReadIndex(in)
    \/ SegmentClose(FALSE, NoFault)
    \/ \E c \in Configs : NewSegment(c)

SpecReconfig == Init /\ [][NextReconfig]_vars

\* --------------------------------------------------------- nearestMultiple
Word == 2 ^ WordBits

\* Mutant of the test j >= 0: j read as a signed word.
SignedNonNegative(j) == j < Word \div 2

\* j >= 0 for an unsigned j.
NonNegative(j) == j >= 0

\* nearestMultiple(j, k) on unsigned words, k # 0 (k = 0 panics in j / k).
nearestMultiple(j, k) ==
    IF NonNegative(j)
    THEN ((j \div k) * k) % Word
    ELSE ((((j - k + 1) % Word) \div k) * k) % Word

\* The arguments the model gives to nearestMultiple: every word, every k >= 1.
Words == 0..(Word - 1)
Divisors == 1..(Word - 1)

\* No segment is in use; a caller is about to call nearestMultiple(j, k).
InitNearest ==
    /\ phase = "removed"
    /\ config = [MaxStoreBytes |-> 64, MaxIndexBytes |-> 24]
    /\ baseOffset = 0
    /\ nextOffset = 0
    /\ storeSize = 0
    /\ storeBuf = <<>>
    /\ storeErr = FALSE
    /\ storeFile = Absent
    /\ indexSize = 0
    /\ mmapLen = 0
    /\ indexFile = Absent
    /\ appended = <<>>
    /\ stored = <<>>
    /\ calls = 0
    /\ faults = 0
    /\ faultBudget = 0
    /\ mu = 0
    /\ proc = [t \in Threads |-> Idle]
    /\ \E j \in Words, k \in Divisors : ret = [op |-> "call", j |-> j, k |-> k]

\* The call returns.
NearestMultiple ==
    /\ ret.op = "call"
    /\ ret' = [op |-> "nearestMultiple", j |-> ret.j, k |-> ret.k,
               out |-> nearestMultiple(ret.j, ret.k)]
    /\ UNCHANGED << phase, config, baseOffset, nextOffset, storeSize, storeBuf, storeErr,
                    storeFile, indexSize, mmapLen, indexFile, appended, stored, calls,
                    faults, faultBudget, mu, proc >>

SpecNearest == InitNearest /\ [][NearestMultiple]_vars

\* ------------------------------------------------------------------ claims
\* The uint64 value of a wide offset lies in [baseOffset, nextOffset).
InRange(off) == off.hi = 0 /\ off.lo >= baseOffset /\ off.lo < nextOffset

\* Offsets at which the properties evaluate segment.Read.
Probes == ReadOffsets \cup { Wide(0, a) : a \in baseOffset..(baseOffset + MaxAppends) }

\* store.Read(pos) in the current state when no write fails.
StoreReadNow(pos) ==
    LET r == StoreRead(Writer, pos, NoFault) IN [err |-> r.err, bytes |-> r.bytes]

\* The same two reads in the state a step leads to.
WriterNext == [buf |-> storeBuf', err |-> storeErr', file |-> storeFile']
IndexNext == [size |-> indexSize', mmapLen |-> mmapLen', file |-> indexFile']

ReadNext(off) ==
    LET r == SegmentReadAt(IndexNext, WriterNext, off, NoFault)
    IN  [err |-> r.err, record |-> r.record]

StoreReadNext(pos) ==
    LET r == StoreRead(WriterNext, pos, NoFault) IN [err |-> r.err, bytes |-> r.bytes]

\* C1 (round trip): while the segment is open, every offset the segment
\* returned from Append, B + i for the i-th record, reads back a record with
\* the i-th payload and that offset; a segment.Read that was made of an offset
\* in [baseOffset, nextOffset) returned exactly that record.
C1_RoundTrip ==
    phase = "open" =>
        /\ \A k \in 1..Len(appended) :
               ReadNow(Wide(0, baseOffset + k - 1)) =
                   [err |-> "nil",
                    record |-> [Value |-> appended[k].value, Offset |-> baseOffset + k - 1]]
        /\ (ret.op = "Read" /\ InRange(ret.off)) =>
               /\ ret.err = "nil"
               /\ ret.record.Value = appended[ret.off.lo - baseOffset + 1].value
               /\ ret.record.Offset = ret.off.lo

C1_Witness ==
    /\ ret.op = "Read"
    /\ ret.off = Wide(0, baseOffset + 2)
    /\ ret.err = "nil"
    /\ Len(appended) = 3
    /\ appended[1].value # appended[3].value
    /\ ret.record.Value = appended[3].value

\* C2 (offset monotonicity): the k-th successful Append on a directory returned
\* B + k - 1; a successful Append step returns the offset that follows the one
\* returned before it; and whenever a returned offset is readable, every offset
\* returned before it is readable.
C2_Returned ==
    /\ \A k \in 1..Len(appended) : appended[k].offset = baseOffset + k - 1
    /\ (ret.op = "Append" /\ ret.err = "nil") =>
           /\ ret.offset = baseOffset + Len(appended) - 1
           /\ nextOffset = ret.offset + 1
    /\ phase = "open" =>
           \A a, b \in 1..Len(appended) :
               (a < b /\ ReadNow(Wide(0, appended[b].offset)).err = "nil")
                   => ReadNow(Wide(0, appended[a].offset)).err = "nil"

C2_Witness ==
    /\ ret.op = "Append"
    /\ ret.err = "nil"
    /\ ret.offset = baseOffset + 2
    /\ ReadNow(Wide(0, baseOffset + 2)).err = "nil"

\* A Close that succeeded; a newSegment after a Close that succeeded.
CloseStep == phase = "open" /\ phase' = "closed" /\ ret'.err = "nil"
ReopenStep == phase = "closed" /\ phase' = "open" /\ ret.op = "Close" /\ ret.err = "nil"

\* C3 (persistence across reopen): a successful Close, and a newSegment on the
\* directory it left, each keep nextOffset and keep every offset that reads a
\* record reading the same record; after newSegment nextOffset is baseOffset
\* when the index is empty and baseOffset + last relative offset + 1 otherwise.
C3_Persistence ==
    [][ (CloseStep \/ ReopenStep) =>
            /\ nextOffset' = nextOffset
            /\ \A off \in Probes :
                   ReadNow(off).err = "nil" => ReadNext(off) = ReadNow(off)
            /\ ReopenStep =>
                   nextOffset' =
                       IF Len(indexFile) = 0 THEN baseOffset
                       ELSE baseOffset + 1
                            + Uint(Slice(indexFile, Len(indexFile) - entWidth,
                                         Len(indexFile) - posWidth)) ]_vars

C3_Witness ==
    /\ ret.op = "newSegment"
    /\ Len(appended) = 2
    /\ nextOffset = baseOffset + 2
    /\ appended[2].value = << 98, 98 >>
    /\ ReadNow(Wide(0, baseOffset + 1)).record.Value = << 98, 98 >>

\* C4 (out-of-range segment read), as claimed: a segment.Read of an offset
\* outside [baseOffset, nextOffset) returns io.EOF.
C4_OutOfRangeIsEOF ==
    (ret.op = "Read" /\ ~InRange(ret.off)) => ret.err = "EOF"

\* A segment.Append step in which index.Write returned io.EOF.
FailedIndexWriteStep == ret'.op = "Append" /\ ret'.err = "EOF" /\ calls' = calls + 1

\* C5 (failed index write): an Append whose index write fails with io.EOF
\* returns offset 0 with the error, leaves nextOffset and the index as they
\* were, leaves the payload in the store at the position store.size had, with
\* store.size advanced over it, and leaves every readable offset reading the
\* same record; nextOffset is baseOffset plus the number of Appends in which
\* both writes succeeded, and the index holds one entry for each of them.
C5_FailedIndexWrite ==
    /\ [][ FailedIndexWriteStep =>
               /\ ret'.offset = 0
               /\ nextOffset' = nextOffset
               /\ indexSize' = indexSize
               /\ indexFile' = indexFile
               /\ Len(stored') = Len(stored) + 1
               /\ LET e == stored'[Len(stored')]
                  IN  /\ e.pos = storeSize
                      /\ storeSize' = storeSize + lenWidth + Len(e.p)
                      /\ StoreReadNext(e.pos) = [err |-> "nil", bytes |-> e.p]
               /\ \A off \in Probes :
                      ReadNow(off).err = "nil" => ReadNext(off) = ReadNow(off) ]_vars
    /\ [](/\ nextOffset = baseOffset + Len(appended)
          /\ indexSize = entWidth * Len(appended))

C5_Witness ==
    /\ ret.op = "Append"
    /\ ret.err = "EOF"
    /\ Len(stored) = Len(appended) + 1
    /\ Len(appended) = 2
    /\ nextOffset = baseOffset + 2

\* A segment.Append step in which store.Append failed; one that succeeded.
FailedStoreAppendStep == ret'.op = "Append" /\ ret'.err = "io" /\ calls' = calls + 1
SuccessfulAppendStep == ret'.op = "Append" /\ ret'.err = "nil" /\ calls' = calls + 1

\* C6 (failed store append): an Append whose store append fails gets (0, 0,
\* err) from the store and returns the error; nextOffset, the index and
\* store.size are as before; nothing but a successful Append (and a new
\* segment on removed files) changes nextOffset, so the next successful Append
\* returns the offset the failed one would have had, at a position where its
\* entry really lies in the store.
C6_FailedStoreAppend ==
    /\ [][ FailedStoreAppendStep =>
               /\ ret'.store = [n |-> 0, pos |-> 0, err |-> "io"]
               /\ ret'.offset = 0
               /\ nextOffset' = nextOffset
               /\ indexSize' = indexSize
               /\ indexFile' = indexFile
               /\ storeSize' = storeSize ]_vars
    /\ [][ (~SuccessfulAppendStep /\ phase # "removed") => nextOffset' = nextOffset ]_vars
    /\ [][ SuccessfulAppendStep =>
               /\ ret'.offset = nextOffset
               /\ ret'.store.pos = storeSize
               /\ Slice(storeFile' \o storeBuf', ret'.store.pos,
                        ret'.store.pos + ret'.store.n)
                      = PutUint(ret'.store.n - lenWidth, lenWidth)
                        \o Marshal([Value |-> ret'.value, Offset |-> ret'.offset]) ]_vars

\* An Append whose store append failed, then a new segment on the directory,
\* then an Append that succeeded.
C6_Witness ==
    /\ ret.op = "Append"
    /\ ret.err = "nil"
    /\ faults = 1
    /\ calls > Len(stored)
    /\ Len(appended) = 2

\* C7 (saturation): IsMaxed is true exactly when the bytes appended to the
\* store have reached MaxStoreBytes or the entries written to the index have
\* reached MaxIndexBytes, and no Append or Read on the open segment makes it
\* false again.
C7_Saturation ==
    /\ [](phase = "open" =>
             (IsMaxed <=> \/ Len(storeFile) + Len(storeBuf) >= config.MaxStoreBytes
                          \/ entWidth * Len(appended) >= config.MaxIndexBytes))
    /\ [][ (phase = "open" /\ phase' = "open" /\ IsMaxed) => IsMaxed' ]_vars

\* Maxed by the store alone, with one more Append made after that.
C7_Witness ==
    /\ phase = "open"
    /\ IsMaxed
    /\ indexSize < config.MaxIndexBytes
    /\ ret.op = "Append"
    /\ Len(stored) = 2
    /\ stored[2].pos >= config.MaxStoreBytes

\* C8 (index file size): while the index is open its file is MaxIndexBytes
\* long; after Close it is index.size long, 12 bytes for each entry written.
C8_IndexFileSize ==
    /\ phase = "open" => Len(indexFile) = config.MaxIndexBytes
    /\ phase = "closed" =>
           /\ Len(indexFile) = indexSize
           /\ Len(indexFile) = entWidth * Len(appended)

\* Closed with two entries written and the store flushed.
C8_Witness ==
    /\ phase = "closed"
    /\ Len(appended) = 2
    /\ Len(indexFile) = 2 * entWidth
    /\ Len(storeFile) = storeSize
    /\ calls = 2
    /\ ret.op = "Close"

\* n (wide) is at least the number of entries, or below -1, or -1 on an
\* empty index.
OutOfIndex(n) ==
    \/ n.hi # 0
    \/ n.lo >= indexSize \div entWidth
    \/ n.lo < -1
    \/ (n = MinusOne /\ indexSize = 0)

\* C9 (index bounds), as claimed: index.Read(n) returns io.EOF for every n
\* that is at least the number of entries or below -1, and for -1 on an empty
\* index.
C9_IndexBounds ==
    (ret.op = "index.Read" /\ OutOfIndex(ret.in)) => ret.err = "EOF"

\* C10 (store read sees buffered appends): while the store is open, reading
\* at a position store.Append returned gives the bytes that Append was given,
\* whatever was appended or read since; each store.Read made returned them.
C10_ReadSeesAppends ==
    phase = "open" =>
        /\ \A k \in 1..Len(stored) :
               StoreReadNow(stored[k].pos) = [err |-> "nil", bytes |-> stored[k].p]
        /\ ret.op = "store.Read" =>
               \A k \in 1..Len(stored) :
                   stored[k].pos = ret.pos => (ret.err = "nil" /\ ret.bytes = stored[k].p)

C10_Witness ==
    /\ ret.op = "store.Read"
    /\ Len(stored) = 3
    /\ ret.pos = stored[3].pos
    /\ ret.err = "nil"
    /\ ret.bytes = stored[3].p
    /\ Len(ret.bytes) > 0

\* The bytes the store entries of a history take: 8 + len(p) for each.
RECURSIVE EntryBytes(_)
EntryBytes(entries) ==
    IF entries = <<>> THEN 0
    ELSE lenWidth + Len(Head(entries).p) + EntryBytes(Tail(entries))

\* The last operation flushed the store's write buffer.
Flushed ==
    \/ ret.op = "store.Read" /\ ret.err = "nil"
    \/ ret.op = "Read" /\ ret.err = "nil"
    \/ ret.op = "Close" /\ ret.err = "nil"

\* C11 (store framing): while the store file exists, store.size is the sum of
\* 8 + len(p) over the payloads appended to the file so far, across close and
\* reopen; whenever the write buffer is empty the file is exactly that long;
\* and a read of the store or a close leaves the buffer empty.
C11_StoreFraming ==
    phase # "removed" =>
        /\ storeSize = EntryBytes(stored)
        /\ storeBuf = <<>> => Len(storeFile) = storeSize
        /\ Flushed => storeBuf = <<>>

\* Three entries in the store file, flushed by a Close.
C11_Witness ==
    /\ ret.op = "Close"
    /\ ret.err = "nil"
    /\ Len(stored) = 3
    /\ stored[3].pos > 0
    /\ Len(storeFile) = EntryBytes(stored)
    /\ Len(storeFile) > 3 * lenWidth

\* C12 (atomic segment append under concurrency), as claimed: the offsets
\* returned to concurrent callers of segment.Append are distinct and
\* consecutive from baseOffset, index entry i holds relative offset i, and
\* each returned offset reads back the record of the call it was returned to.
C12_AtomicAppend ==
    /\ \A a, b \in 1..Len(appended) :
           a # b => appended[a].offset # appended[b].offset
    /\ { appended[k].offset : k \in 1..Len(appended) } =
           { baseOffset + k - 1 : k \in 1..Len(appended) }
    /\ \A i \in 0..((indexSize \div entWidth) - 1) :
           IndexRead(Index, Wide(0, i)).out = i
    /\ mu = 0 =>
           \A k \in 1..Len(appended) :
               ReadNow(Wide(0, appended[k].offset)).record.Value = appended[k].value

\* A thread between s.mu.Lock and s.mu.Unlock of a store call.
InStore(t) == proc[t].pc \in { "len", "payload", "size", "readat" }

\* C13 (store mutual exclusion): at most one thread is inside a store call,
\* and it holds the mutex; each completed store.Append got the position that
\* is the sum of the entry sizes of the appends completed before it, so the
\* entries do not overlap; and whenever the mutex is free, a store.Read of the
\* position of a completed append returns that append's bytes, as did every
\* store.Read a thread made.
C13_MutualExclusion ==
    /\ \A t, u \in Threads : (InStore(t) /\ InStore(u)) => t = u
    /\ \A t \in Threads : InStore(t) => mu = t
    /\ \A k \in 1..Len(stored) : stored[k].pos = EntryBytes(SubSeq(stored, 1, k - 1))
    /\ mu = 0 =>
           \A k \in 1..Len(stored) :
               StoreReadNow(stored[k].pos) = [err |-> "nil", bytes |-> stored[k].p]
    /\ ret.op = "store.Read" =>
           \E k \in 1..Len(stored) :
               /\ stored[k].pos = ret.pos
               /\ ret.err = "nil"
               /\ ret.bytes = stored[k].p

\* One thread has written the length of its entry and not yet the payload
\* while the other waits for the mutex, after a store.Read of an earlier entry.
C13_Witness ==
    /\ proc[1].pc = "payload"
    /\ proc[2].pc = "lock"
    /\ mu = 1
    /\ Len(stored) = 1
    /\ ret.op = "store.Read"
    /\ ret.bytes = stored[1].p

\* A segment.Append step whose store.Append succeeded.
StoreAppendedStep == ret'.op = "Append" /\ calls' = calls + 1 /\ ret'.store.err = "nil"

\* C14 (store append result): a successful store.Append(p) returns
\* n = len(p) + 8 and pos = store.size as it was before the call, and advances
\* store.size by n; so each position is the one before it plus 8 plus the
\* length of the payload appended there, and positions strictly increase.
C14_AppendResult ==
    /\ [][ StoreAppendedStep =>
               /\ Len(stored') = Len(stored) + 1
               /\ LET e == stored'[Len(stored')]
                  IN  /\ e.p = Marshal([Value |-> ret'.value, Offset |-> nextOffset])
                      /\ ret'.store.n = Len(e.p) + lenWidth
                      /\ ret'.store.pos = storeSize
                      /\ e.pos = ret'.store.pos
                      /\ storeSize' = storeSize + ret'.store.n ]_vars
    /\ [](\A k \in 1..(Len(stored) - 1) :
              /\ stored[k + 1].pos = stored[k].pos + lenWidth + Len(stored[k].p)
              /\ stored[k + 1].pos > stored[k].pos)

\* A third store append, of a payload that is not empty, after two others.
C14_Witness ==
    /\ ret.op = "Append"
    /\ ret.store.err = "nil"
    /\ Len(stored) = 3
    /\ ret.store.pos = stored[3].pos
    /\ ret.store.n > lenWidth
    /\ stored[3].pos > stored[2].pos

\* Entry i of the index file, decoded from its bytes.
EntryAt(i) ==
    [off |-> Uint(Slice(indexFile, i * entWidth, i * entWidth + offWidth)),
     pos |-> Uint(Slice(indexFile, i * entWidth + offWidth, (i + 1) * entWidth))]

\* C15 (index density): while the segment's files exist, the index holds
\* nextOffset - baseOffset entries; entry i holds relative offset i and the
\* store position that store.Append returned for the record with offset
\* baseOffset + i, a position at which the store holds that record,
\* serialized; and when no append failed, that position is the sum of
\* 8 + len(p) over the payloads stored before it.
C15_IndexDensity ==
    phase # "removed" =>
        /\ indexSize = entWidth * (nextOffset - baseOffset)
        /\ Len(appended) = nextOffset - baseOffset
        /\ \A i \in 0..(Len(appended) - 1) :
               /\ EntryAt(i) = [off |-> i, pos |-> appended[i + 1].pos]
               /\ \E j \in 1..Len(stored) :
                      /\ stored[j].pos = appended[i + 1].pos
                      /\ stored[j].p = Marshal([Value |-> appended[i + 1].value,
                                                Offset |-> baseOffset + i])
               /\ Len(stored) = Len(appended) =>
                      appended[i + 1].pos = EntryBytes(SubSeq(stored, 1, i))

\* Three entries on a segment with base offset 10, reopened after a close.
C15_Witness ==
    /\ ret.op = "newSegment"
    /\ baseOffset = 10
    /\ Len(appended) = 3
    /\ EntryAt(2).off = 2
    /\ EntryAt(2).pos = stored[3].pos
    /\ EntryAt(2).pos > EntryAt(1).pos

\* What the n-th successful index.Write was given, as index.Read returns it.
Written(n) ==
    [err |-> "nil", out |-> appended[n + 1].offset - baseOffset, pos |-> appended[n + 1].pos]

\* What the last index.Read returned.
Returned == [err |-> ret.err, out |-> ret.out, pos |-> ret.pos]

\* C16 (index read): on an open index with at least one entry,
\* index.Read(n) for 0 <= n < entries returns the pair the n-th successful
\* index.Write was given, and index.Read(-1) returns what
\* index.Read(entries - 1) returns; each index.Read made returned so; and an
\* index.Read leaves index.size and the entries as they were.
C16_IndexRead ==
    /\ [](phase = "open" /\ indexSize >= entWidth =>
             LET entries == indexSize \div entWidth
             IN  /\ \A n \in 0..(entries - 1) : IndexRead(Index, Wide(0, n)) = Written(n)
                 /\ IndexRead(Index, MinusOne) = IndexRead(Index, Wide(0, entries - 1))
                 /\ (ret.op = "index.Read" /\ ret.in = MinusOne) =>
                        Returned = Written(entries - 1)
                 /\ (ret.op = "index.Read" /\ ret.in.hi = 0 /\ ret.in.lo >= 0
                        /\ ret.in.lo < entries) => Returned = Written(ret.in.lo))
    /\ [][ (ret'.op = "index.Read" /\ ret' # ret) =>
               /\ indexSize' = indexSize
               /\ mmapLen' = mmapLen
               /\ indexFile' = indexFile ]_vars

\* index.Read(-1) returned the third entry of a full index.
C16_Witness ==
    /\ ret.op = "index.Read"
    /\ ret.in = MinusOne
    /\ ret.err = "nil"
    /\ ret.out = 2
    /\ ret.pos = appended[3].pos
    /\ ret.pos > 0

\* C17 (index-full is announced by IsMaxed), as claimed: a segment.Append
\* fails with io.EOF from index.Write only in a state where IsMaxed was
\* already true before the call.
C17_FullIsAnnounced ==
    [][ FailedIndexWriteStep => IsMaxed ]_vars

\* A call of segment.Close: it closed the segment, or index.Close failed.
CloseCall ==
    /\ phase = "open"
    /\ ret'.op = "Close"
    /\ (phase' = "closed" \/ faults' = faults + 1)

\* The store entry of history record e lies in the bytes f.
EntryIn(f, e) ==
    /\ e.pos + e.n <= Len(f)
    /\ Slice(f, e.pos, e.pos + e.n) = PutUint(Len(e.p), lenWidth) \o e.p

\* C18 (segment close order): segment.Close returns the error of index.Close
\* when that fails, and then has not touched the store: the buffer is not
\* flushed and the segment stays open; it returns the error of store.Close
\* when only that fails, with the index already closed and truncated; and
\* when it returns no error the store file has taken the whole buffer, so
\* that every entry the store held is in the file (every entry appended, when
\* no write ever failed), and the index file is exactly the entries written.
C18_CloseOrder ==
    /\ [][ (CloseCall /\ ret'.err = "sync") =>
               /\ storeBuf' = storeBuf
               /\ storeFile' = storeFile
               /\ storeErr' = storeErr
               /\ indexFile' = indexFile
               /\ phase' = "open" ]_vars
    /\ [][ (CloseCall /\ ret'.err = "io") =>
               /\ storeErr'
               /\ indexFile' = Truncate(indexFile, indexSize)
               /\ phase' = "closed" ]_vars
    /\ [][ (CloseCall /\ ret'.err = "nil") =>
               /\ phase' = "closed"
               /\ storeBuf' = <<>>
               /\ storeFile' = storeFile \o storeBuf
               /\ Len(storeFile') = storeSize
               /\ \A k \in 1..Len(stored) :
                      (EntryIn(storeFile \o storeBuf, stored[k]) \/ faults = 0)
                          => EntryIn(storeFile', stored[k])
               /\ Len(indexFile') = entWidth * Len(appended)
               /\ \A i \in 0..(Len(appended) - 1) :
                      Slice(indexFile', i * entWidth, (i + 1) * entWidth) =
                          PutUint(i, offWidth) \o PutUint(appended[i + 1].pos, posWidth) ]_vars
    /\ [][ CloseCall => ret'.err \in { "nil", "sync", "io" } ]_vars

\* index.Close failed with an entry still in the store's write buffer.
C18_Witness ==
    /\ ret.op = "Close"
    /\ ret.err = "sync"
    /\ phase = "open"
    /\ storeBuf # <<>>
    /\ Len(appended) = 2
    /\ Len(indexFile) = config.MaxIndexBytes

\* A call of segment.Remove.
RemoveCall ==
    /\ phase = "open"
    /\ ret'.op = "Remove"
    /\ (phase' # "open" \/ faults' = faults + 1)

\* C19 (segment remove): when the Close inside segment.Remove succeeds, both
\* files are unlinked; when it fails, Remove returns its error and both files
\* still exist, as that Close left them; and a segment opened on the
\* directory after a successful Remove is empty: nextOffset is baseOffset,
\* the index and the store have size 0 and every read returns io.EOF.
C19_Remove ==
    /\ [][ (RemoveCall /\ ret'.err = "nil") =>
               /\ indexFile' = Absent
               /\ storeFile' = Absent
               /\ phase' = "removed" ]_vars
    /\ [][ (RemoveCall /\ ret'.err # "nil") =>
               /\ ret'.err \in { "sync", "io" }
               /\ indexFile' # Absent
               /\ storeFile' # Absent
               /\ phase' # "removed"
               /\ ret'.err = "sync" => (indexFile' = indexFile /\ storeFile' = storeFile)
               /\ ret'.err = "io" => indexFile' = Truncate(indexFile, indexSize) ]_vars
    /\ [][ (phase = "removed" /\ phase' = "open") =>
               /\ nextOffset' = baseOffset
               /\ indexSize' = 0
               /\ storeSize' = 0
               /\ storeFile' = <<>>
               /\ \A off \in Probes : ReadNext(off).err = "EOF" ]_vars

\* Removed after two records were appended: neither file exists.
C19_Witness ==
    /\ phase = "removed"
    /\ ret.op = "Remove"
    /\ ret.err = "nil"
    /\ indexFile = Absent
    /\ storeFile = Absent
    /\ Len(appended) = 2

\* C20 (index size stays inside the map), as claimed: for every index that
\* newIndex returned (the segment is open, or newSegment panicked in the
\* index.Read(-1) it makes on that index), index.size is a multiple of 12 and
\* at most len(mmap), which is MaxIndexBytes.
C20_SizeInsideMap ==
    phase \in { "open", "panicked" } =>
        /\ indexSize % entWidth = 0
        /\ indexSize <= mmapLen
        /\ mmapLen = config.MaxIndexBytes

\* C21 (nearestMultiple): for every unsigned j and every k >= 1 the result
\* is the largest multiple of k that does not exceed j: it is m * k for
\* some m, with m * k <= j < (m + 1) * k; and the test j >= 0 holds of every
\* unsigned j, so the branch for negative j is not taken.
C21_NearestMultiple ==
    ret.op = "nearestMultiple" =>
        /\ ret.k >= 1
        /\ \E m \in Words :
               /\ ret.out = m * ret.k
               /\ m * ret.k <= ret.j
               /\ ret.j < (m + 1) * ret.k
        /\ NonNegative(ret.j)

\* A j with its top bit set, between two multiples of k.
C21_Witness ==
    /\ ret.op = "nearestMultiple"
    /\ ret.j >= Word \div 2
    /\ ret.k > 1
    /\ ret.out > 0
    /\ ret.out < ret.j

====
